---- MODULE Spec2Model ----
(***************************************************************************)
(* kubeconfig-generator: one run of main / generateKubeconfig (main.go).   *)
(* The program is sequential; pc is its position.  Every call that leaves  *)
(* the process (file system, API server, kubectl) is one step whose        *)
(* outcome is chosen among the outcomes the call can have.                 *)
(***************************************************************************)
EXTENDS Integers, Sequences, FiniteSets, TLC

VARIABLES pc, flags, config, env, currentConfig, currentContext,
          currentCluster, clientset, verified, primary, sa, secret, token,
          newConfig, caRead, fallback, file, dirExists, stdout, err, exit, calls

vars == <<pc, flags, config, env, currentConfig, currentContext,
          currentCluster, clientset, verified, primary, sa, secret, token,
          newConfig, caRead, fallback, file, dirExists, stdout, err, exit, calls>>

(* ---------------- bounds ---------------- *)
MaxOut == 2
MaxSecrets == 2

(* ---------------- small value sets ---------------- *)
Chars == {" ", "a"}
Space == {" "}
RECURSIVE SeqsUpTo(_, _)
SeqsUpTo(S, n) ==
  IF n = 0 THEN {<<>>}
  ELSE LET r == SeqsUpTo(S, n - 1)
       IN r \cup {Append(s, x) : s \in {t \in r : Len(t) = n - 1}, x \in S}
Outputs == SeqsUpTo(Chars, MaxOut)
SecretNames == {"s1", "s2"}
SecretLists == SeqsUpTo(SecretNames, MaxSecrets)
EmptyMap == [k \in {} |-> k]
Nil == <<>>
Cause == "cause"

(* ---------------- error messages of main.go ---------------- *)
MissingRequiredInput == "Error: ServiceAccount name is required"
SourceLoadError == "failed to load kubeconfig"
BuildConfigError == "failed to build config from flags"
ClientsetError == "failed to create clientset"
NoCurrentContext == "no current context found"
NoClusterForContext == "no cluster found for current context"
ServiceAccountNotFound == "failed to get ServiceAccount in namespace"
GetTokenError == "failed to get token"
GetServiceAccountError == "failed to get ServiceAccount"
NoAssociatedSecret == "service account has no secrets"
SecretReadError == "failed to get secret"
TokenFieldMissing == "token not found in secret"
OutputDirError == "failed to create output directory"
WriteError == "failed to write kubeconfig to file"
PermissionError == "failed to set kubeconfig file permissions"

(* ---------------- pure helpers ---------------- *)
RECURSIVE TrimLeft(_)
TrimLeft(s) == IF s # <<>> /\ Head(s) \in Space THEN TrimLeft(Tail(s)) ELSE s
RECURSIVE TrimRight(_)
TrimRight(s) ==
  IF s # <<>> /\ s[Len(s)] \in Space THEN TrimRight(SubSeq(s, 1, Len(s) - 1))
  ELSE s
TrimSpace(s) == TrimRight(TrimLeft(s))

RECURSIVE AndNot(_, _)
AndNot(a, b) ==
  IF a = 0 THEN 0
  ELSE 2 * AndNot(a \div 2, b \div 2)
       + (IF a % 2 = 1 /\ b % 2 = 0 THEN 1 ELSE 0)

Call(op, arg) == [op |-> op, arg |-> arg]
Wrap(msg, cause) == <<msg>> \o cause

(* ---------------- inputs and environment ---------------- *)
Flags ==
  [ServiceAccountName : {"", "pod-viewer"},
   Namespace : {"sa-namespace"},
   OutputPath : {"./out"},
   ContextName : {"", "my-context"},
   ClusterName : {"", "my-cluster"},
   APIServer : {"", "https://api.example:6443"},
   KubeconfigPath : {"/home/u/.kube/config"},
   TokenExpiryHours : {8760}]

NoFile == [exists |-> FALSE, mode |-> 0, content |-> <<>>]
Files0 == {NoFile, [exists |-> TRUE, mode |-> 420, content |-> <<>>]}
Umasks == {18, 128}

NilContext == [Cluster |-> "", AuthInfo |-> "", Namespace |-> ""]
NilCluster ==
  [Server |-> "", CertificateAuthorityData |-> <<>>,
   CertificateAuthority |-> ""]
NoConfig ==
  [Clusters |-> EmptyMap, AuthInfos |-> EmptyMap, Contexts |-> EmptyMap,
   CurrentContext |-> ""]

SourceConfigs ==
  {[Clusters |-> ("prod" :> [Server |-> "https://10.0.0.1:6443",
                             CertificateAuthorityData |-> ca,
                             CertificateAuthority |-> caFile]),
    AuthInfos |-> ("admin" :> [Token |-> <<"a">>]),
    Contexts |-> ("dev" :> [Cluster |-> c, AuthInfo |-> "admin",
                            Namespace |-> ""]),
    CurrentContext |-> cc] :
      ca \in {<<>>, <<1, 2>>}, caFile \in {"", "/etc/ca.crt"},
      c \in {"prod", "gone"}, cc \in {"", "dev", "ghost"}}

CAFileReads ==
  {[called |-> TRUE, ok |-> FALSE, content |-> <<>>]}
    \cup {[called |-> TRUE, ok |-> TRUE, content |-> b] : b \in {<<>>, <<3>>}}
NoRead == [called |-> FALSE, ok |-> FALSE, content |-> <<>>]

SecretData ==
  {EmptyMap, ("ca.crt" :> <<>>)} \cup {("token" :> t) : t \in Outputs}

Init ==
  /\ pc = "main"
  /\ flags \in Flags
  /\ config = flags
  /\ env \in [umask : Umasks, file0 : Files0]
  /\ file = env.file0
  /\ dirExists \in (IF env.file0.exists THEN {TRUE} ELSE BOOLEAN)
  /\ currentConfig = NoConfig
  /\ currentContext = NilContext
  /\ currentCluster = NilCluster
  /\ clientset = "none"
  /\ primary = [called |-> FALSE, failed |-> FALSE, token |-> <<>>]
  /\ verified = "none"
  /\ sa = [status |-> "none", Secrets |-> <<>>]
  /\ secret = [status |-> "none", Name |-> "", Data |-> EmptyMap]
  /\ fallback = [called |-> FALSE, err |-> Nil, token |-> <<>>]
  /\ token = <<>>
  /\ newConfig = NoConfig
  /\ caRead = NoRead
  /\ stdout = <<>>
  /\ err = Nil
  /\ exit = -1
  /\ calls = <<>>

(* log.Fatal / log.Fatalf: the run ends with a non-zero exit *)
Fatal(e) == pc' = "done" /\ err' = e /\ exit' = 1

(* ---------------- main ---------------- *)
(* variant: the -context flag is ignored *)
ResolveContextNameIgnoringFlag(ctx, saName) == saName \o "-context"

ResolveContextName(ctx, saName) ==
  IF ctx = "" THEN saName \o "-context" ELSE ctx

Main ==
  /\ pc = "main"
  /\ IF config.ServiceAccountName = ""
     THEN /\ Fatal(<<MissingRequiredInput>>)
          /\ UNCHANGED config
     ELSE /\ config' = [config EXCEPT !.ContextName =
                 ResolveContextName(config.ContextName,
                                    config.ServiceAccountName)]
          /\ pc' = "load"
          /\ UNCHANGED <<err, exit>>
  /\ UNCHANGED <<flags, env, currentConfig, currentContext, currentCluster,
                 clientset, verified, primary, sa, secret, token, newConfig, caRead,
                 fallback, file, dirExists, stdout, calls>>

(* ---------------- generateKubeconfig: source config and client -------- *)
LoadFromFile ==
  /\ pc = "load"
  /\ calls' = Append(calls, Call("LoadFromFile", config.KubeconfigPath))
  /\ \/ /\ Fatal(Wrap(SourceLoadError, <<Cause>>))
        /\ UNCHANGED currentConfig
     \/ /\ \E src \in SourceConfigs : currentConfig' = src
        /\ pc' = "build"
        /\ UNCHANGED <<err, exit>>
  /\ UNCHANGED <<flags, config, env, currentContext, currentCluster,
                 clientset, verified, primary, sa, secret, token, newConfig, caRead,
                 fallback, file, dirExists, stdout>>

(* clientcmd.BuildConfigFromFlags("", path) validates the current context *)
(* of the file it is given: a named context that has no entry is an       *)
(* error; an unset context or a context whose cluster has no entry is an  *)
(* empty configuration, an error too unless the in-cluster configuration  *)
(* is available and is used in its place.  Reading the file can fail.     *)
ContextNotFound(cfg) ==
  cfg.CurrentContext # "" /\ cfg.CurrentContext \notin DOMAIN cfg.Contexts
Usable(cfg) ==
  /\ cfg.CurrentContext \in DOMAIN cfg.Contexts
  /\ cfg.Contexts[cfg.CurrentContext].Cluster \in DOMAIN cfg.Clusters

BuildConfigFromFlags ==
  /\ pc = "build"
  /\ calls' = Append(calls, Call("BuildConfigFromFlags", config.KubeconfigPath))
  /\ \/ /\ Fatal(Wrap(BuildConfigError, <<Cause>>))
        /\ UNCHANGED clientset
     \/ /\ Usable(currentConfig)
        /\ clientset' = "kubeconfig"
        /\ pc' = "clientset"
        /\ UNCHANGED <<err, exit>>
     \/ /\ ~Usable(currentConfig)
        /\ ~ContextNotFound(currentConfig)
        /\ clientset' = "in-cluster"
        /\ pc' = "clientset"
        /\ UNCHANGED <<err, exit>>
  /\ UNCHANGED <<flags, config, env, currentConfig, currentContext,
                 currentCluster, verified, primary, sa, secret, token, newConfig,
                 caRead, fallback, file, dirExists, stdout>>

NewForConfig ==
  /\ pc = "clientset"
  /\ calls' = Append(calls, Call("NewForConfig", clientset))
  /\ \/ Fatal(Wrap(ClientsetError, <<Cause>>))
     \/ pc' = "context" /\ UNCHANGED <<err, exit>>
  /\ UNCHANGED <<flags, config, env, currentConfig, currentContext,
                 currentCluster, clientset, verified, primary, sa, secret, token,
                 newConfig, caRead, fallback, file, dirExists, stdout>>

(* lines 91-110: current context, its cluster, and the defaults from them *)
Has(m, k) == k \in DOMAIN m
DefaultFrom(flag, value) == IF flag = "" THEN value ELSE flag

ResolveContext ==
  /\ pc = "context"
  /\ IF ~Has(currentConfig.Contexts, currentConfig.CurrentContext)
     THEN /\ Fatal(<<NoCurrentContext>>)
          /\ UNCHANGED <<currentContext, currentCluster, config>>
     ELSE LET ctx == currentConfig.Contexts[currentConfig.CurrentContext]
          IN /\ currentContext' = ctx
             /\ IF ~Has(currentConfig.Clusters, ctx.Cluster)
                THEN /\ Fatal(<<NoClusterForContext>>)
                     /\ UNCHANGED <<currentCluster, config>>
                ELSE LET cl == currentConfig.Clusters[ctx.Cluster]
                     IN /\ currentCluster' = cl
                        /\ config' =
                             [config EXCEPT
                                !.ClusterName =
                                   DefaultFrom(config.ClusterName, ctx.Cluster),
                                !.APIServer =
                                   DefaultFrom(config.APIServer, cl.Server)]
                        /\ pc' = "verify"
                        /\ UNCHANGED <<err, exit>>
  /\ UNCHANGED <<flags, env, currentConfig, clientset, verified, primary, sa, secret,
                 token, newConfig, caRead, fallback, file, dirExists, stdout,
                 calls>>

(* ---------------- ServiceAccount verification (lines 112-121) --------- *)
(* variant: the error of the verification read is dropped *)
VerifyFailedIgnored(ok) == FALSE

VerifyFailed(ok) == ~ok

VerifyServiceAccount ==
  /\ pc = "verify"
  /\ calls' = Append(calls, Call("ServiceAccounts.Get", "verify"))
  /\ \E ok \in BOOLEAN :
       /\ verified' = IF ok THEN "ok" ELSE "failed"
       /\ IF VerifyFailed(ok)
          THEN Fatal(Wrap(ServiceAccountNotFound, <<Cause>>))
          ELSE pc' = "primary" /\ UNCHANGED <<err, exit>>
  /\ UNCHANGED <<flags, config, env, currentConfig, currentContext,
                 currentCluster, clientset, primary, sa, secret, token,
                 newConfig, caRead, fallback, file, dirExists, stdout>>

(* ---------------- token acquisition (lines 190-262) ------------------- *)
KubectlResults ==
  {[failed |-> TRUE, out |-> <<>>]}
    \cup {[failed |-> FALSE, out |-> o] : o \in Outputs}

(* createTokenWithKubectl: "" and the error, or the trimmed output *)
KubectlToken(res) == IF res.failed THEN <<>> ELSE TrimSpace(res.out)

(* variant: the emptiness test of line 193 is inverted *)
PrimarySucceededInverted(tok, failed) == ~failed /\ tok = <<>>

(* variant: line 193 without the emptiness test *)
PrimarySucceededNoEmptyTest(tok, failed) == ~failed

(* line 193: err == nil && token != "" *)
PrimarySucceeded(tok, failed) == ~failed /\ tok # <<>>

(* variant: the error of getServiceAccountToken is dropped *)
TokenFailedIgnored(e) == FALSE

(* line 125: if err != nil *)
TokenFailed(e) == e # Nil

CreateTokenWithKubectl ==
  /\ pc = "primary"
  /\ calls' = Append(calls, Call("kubectl create token",
                                 config.ServiceAccountName))
  /\ \E res \in KubectlResults :
       LET tok == KubectlToken(res)
       IN /\ primary' = [called |-> TRUE, failed |-> res.failed, token |-> tok]
          /\ IF PrimarySucceeded(tok, res.failed)
             THEN token' = tok /\ pc' = "assemble"
             ELSE token' = token /\ pc' = "fallback"
  /\ UNCHANGED <<flags, config, env, currentConfig, currentContext,
                 currentCluster, clientset, verified, sa, secret, newConfig, caRead,
                 fallback, file, dirExists, stdout, err, exit>>

(* what generateKubeconfig does with getTokenFromSecret's result *)
ReturnFromFallback(e, tok) ==
  /\ fallback' = [called |-> TRUE, err |-> e, token |-> tok]
  /\ IF TokenFailed(e)
     THEN Fatal(Wrap(GetTokenError, e)) /\ UNCHANGED token
     ELSE token' = tok /\ pc' = "assemble" /\ UNCHANGED <<err, exit>>

(* line 240: len(sa.Secrets) == 0 *)
HasNoSecrets(secrets) == Len(secrets) = 0

(* variant: the last listed secret instead of the first *)
LastSecretName(secrets) == secrets[Len(secrets)]

(* line 245: sa.Secrets[0].Name *)
FirstSecretName(secrets) == secrets[1]

(* getTokenFromSecret, up to the read of the ServiceAccount *)
GetTokenFromSecret ==
  /\ pc = "fallback"
  /\ calls' = calls \o <<Call("getTokenFromSecret", ""),
                         Call("ServiceAccounts.Get", "fallback")>>
  /\ \/ /\ ReturnFromFallback(Wrap(GetServiceAccountError, <<Cause>>), <<>>)
        /\ sa' = [sa EXCEPT !.status = "failed"]
     \/ \E secrets \in SecretLists :
          /\ sa' = [status |-> "ok", Secrets |-> secrets]
          /\ IF HasNoSecrets(secrets)
             THEN ReturnFromFallback(<<NoAssociatedSecret>>, <<>>)
             ELSE /\ pc' = "secret"
                  /\ UNCHANGED <<fallback, token, err, exit>>
  /\ UNCHANGED <<flags, config, env, currentConfig, currentContext,
                 currentCluster, clientset, verified, primary, secret, newConfig,
                 caRead, file, dirExists, stdout>>

(* line 261: string(tokenData) *)
BytesToString(b) == b

(* getTokenFromSecret, from the read of the secret *)
GetSecret ==
  /\ pc = "secret"
  /\ LET secretName == FirstSecretName(sa.Secrets)
     IN /\ calls' = Append(calls, Call("Secrets.Get", secretName))
        /\ \/ /\ ReturnFromFallback(Wrap(SecretReadError, <<Cause>>), <<>>)
              /\ secret' = [secret EXCEPT !.status = "failed",
                                          !.Name = secretName]
           \/ \E data \in SecretData :
                /\ secret' = [status |-> "ok", Name |-> secretName,
                           Data |-> data]
                /\ IF ~Has(data, "token")
                   THEN ReturnFromFallback(<<TokenFieldMissing>>, <<>>)
                   ELSE ReturnFromFallback(Nil, BytesToString(data["token"]))
  /\ UNCHANGED <<flags, config, env, currentConfig, currentContext,
                 currentCluster, clientset, verified, primary, sa, newConfig, caRead,
                 file, dirExists, stdout>>

(* ---------------- assembling the new kubeconfig (lines 129-167) ------- *)
WarningNoCA ==
  "Warning: No CA certificate data found. Setting insecure-skip-tls-verify: true"
WarningReadCA == "Warning: Failed to read CA certificate"
SettingInsecure == "Setting insecure-skip-tls-verify: true"

Put(m, k, v) == [x \in DOMAIN m \cup {k} |-> IF x = k THEN v ELSE m[x]]

(* api.NewConfig() *)
NewConfig == NoConfig

(* line 140: os.ReadFile is reached *)
NeedsCAFile(cluster) ==
  Len(cluster.CertificateAuthorityData) = 0 /\ cluster.CertificateAuthority # ""

(* variant: a failed read of the CA file turns verification off silently *)
ResolveCASilent(cluster, read) ==
  IF Len(cluster.CertificateAuthorityData) > 0
  THEN [CertificateAuthorityData |-> cluster.CertificateAuthorityData,
        InsecureSkipTLSVerify |-> FALSE, out |-> <<>>]
  ELSE IF cluster.CertificateAuthority # ""
  THEN IF read.ok
       THEN [CertificateAuthorityData |-> read.content,
             InsecureSkipTLSVerify |-> FALSE, out |-> <<>>]
       ELSE [CertificateAuthorityData |-> <<>>,
             InsecureSkipTLSVerify |-> TRUE, out |-> <<>>]
  ELSE [CertificateAuthorityData |-> <<>>,
        InsecureSkipTLSVerify |-> TRUE, out |-> <<WarningNoCA>>]

(* lines 137-152 *)
ResolveCA(cluster, read) ==
  IF Len(cluster.CertificateAuthorityData) > 0
  THEN [CertificateAuthorityData |-> cluster.CertificateAuthorityData,
        InsecureSkipTLSVerify |-> FALSE, out |-> <<>>]
  ELSE IF cluster.CertificateAuthority # ""
  THEN IF read.ok
       THEN [CertificateAuthorityData |-> read.content,
             InsecureSkipTLSVerify |-> FALSE, out |-> <<>>]
       ELSE [CertificateAuthorityData |-> <<>>,
             InsecureSkipTLSVerify |-> TRUE,
             out |-> <<WarningReadCA, SettingInsecure>>]
  ELSE [CertificateAuthorityData |-> <<>>,
        InsecureSkipTLSVerify |-> TRUE, out |-> <<WarningNoCA>>]

Assemble ==
  /\ pc = "assemble"
  /\ \E read \in (IF NeedsCAFile(currentCluster) THEN CAFileReads
                  ELSE {NoRead}) :
       LET ca == ResolveCA(currentCluster, read)
           cluster == [Server |-> config.APIServer,
                       CertificateAuthorityData |-> ca.CertificateAuthorityData,
                       InsecureSkipTLSVerify |-> ca.InsecureSkipTLSVerify]
           c0 == NewConfig
           c1 == [c0 EXCEPT !.Clusters = Put(@, config.ClusterName, cluster)]
           c2 == [c1 EXCEPT !.AuthInfos =
                    Put(@, config.ServiceAccountName, [Token |-> token])]
           c3 == [c2 EXCEPT !.Contexts =
                    Put(@, config.ContextName,
                        [Cluster |-> config.ClusterName,
                         AuthInfo |-> config.ServiceAccountName,
                         Namespace |-> config.Namespace])]
       IN /\ caRead' = read
          /\ calls' = IF read.called
                      THEN Append(calls, Call("ReadFile",
                                     currentCluster.CertificateAuthority))
                      ELSE calls
          /\ stdout' = stdout \o ca.out
          /\ newConfig' = [c3 EXCEPT !.CurrentContext = config.ContextName]
  /\ pc' = "mkdir"
  /\ UNCHANGED <<flags, config, env, currentConfig, currentContext,
                 currentCluster, clientset, verified, primary, sa, secret, token,
                 fallback, file, dirExists, err, exit>>

(* ---------------- output (lines 169-187, 62-63) ----------------------- *)
WriteFileMode == 384
ChmodMode == 384

EnsureOutputDir ==
  /\ pc = "mkdir"
  /\ IF dirExists
     THEN pc' = "write" /\ UNCHANGED <<dirExists, calls, err, exit>>
     ELSE /\ calls' = Append(calls, Call("MkdirAll", config.OutputPath))
          /\ \/ /\ Fatal(Wrap(OutputDirError, <<Cause>>))
                /\ UNCHANGED dirExists
             \/ /\ dirExists' = TRUE
                /\ pc' = "write"
                /\ UNCHANGED <<err, exit>>
  /\ UNCHANGED <<flags, config, env, currentConfig, currentContext,
                 currentCluster, clientset, verified, primary, sa, secret, token,
                 newConfig, caRead, fallback, file, stdout>>

(* os.WriteFile: O_WRONLY|O_CREATE|O_TRUNC with the given permission *)
Opened(f, perm, umask) ==
  IF f.exists THEN [f EXCEPT !.content = <<>>]
  ELSE [exists |-> TRUE, mode |-> AndNot(perm, umask), content |-> <<>>]

(* variant: the error of WriteToFile is dropped *)
WriteFailedIgnored(ok) == FALSE

(* line 178: if err != nil after WriteToFile *)
WriteFailed(ok) == ~ok

WriteToFile ==
  /\ pc = "write"
  /\ calls' = Append(calls, Call("WriteToFile", config.OutputPath))
  /\ \E opened \in BOOLEAN, written \in BOOLEAN :
       /\ written => opened
       /\ file' = IF ~opened THEN file
                  ELSE IF ~written THEN Opened(file, WriteFileMode, env.umask)
                  ELSE [Opened(file, WriteFileMode, env.umask)
                          EXCEPT !.content = <<newConfig>>]
       /\ IF WriteFailed(written)
          THEN Fatal(Wrap(WriteError, <<Cause>>))
          ELSE pc' = "chmod" /\ UNCHANGED <<err, exit>>
  /\ UNCHANGED <<flags, config, env, currentConfig, currentContext,
                 currentCluster, clientset, verified, primary, sa, secret, token,
                 newConfig, caRead, fallback, dirExists, stdout>>

(* variant: the mode is not applied *)
ChmodedNoEffect(f, mode) == f

(* os.Chmod(path, mode) on an existing file *)
Chmoded(f, mode) == [f EXCEPT !.mode = mode]

CreatedLine == "Kubeconfig file created at: "
UseWithLine == "Use with: export KUBECONFIG="

Chmod ==
  /\ pc = "chmod"
  /\ calls' = Append(calls, Call("Chmod", config.OutputPath))
  /\ \/ /\ Fatal(Wrap(PermissionError, <<Cause>>))
        /\ UNCHANGED <<file, stdout>>
     \/ /\ file.exists
        /\ file' = Chmoded(file, ChmodMode)
        /\ stdout' = stdout \o <<CreatedLine \o config.OutputPath,
                                 UseWithLine \o config.OutputPath>>
        /\ pc' = "done"
        /\ exit' = 0
        /\ UNCHANGED err
  /\ UNCHANGED <<flags, config, env, currentConfig, currentContext,
                 currentCluster, clientset, verified, primary, sa, secret, token,
                 newConfig, caRead, fallback, dirExists>>

Next ==
  \/ Main
  \/ LoadFromFile
  \/ BuildConfigFromFlags
  \/ NewForConfig
  \/ ResolveContext
  \/ VerifyServiceAccount
  \/ CreateTokenWithKubectl
  \/ GetTokenFromSecret
  \/ GetSecret
  \/ Assemble
  \/ EnsureOutputDir
  \/ WriteToFile
  \/ Chmod

Spec == Init /\ [][Next]_vars

(* ====================================================================== *)
(* Properties                                                             *)
(* ====================================================================== *)
Done == pc = "done"
Succeeded == pc = "done" /\ exit = 0
FailedWith(msg) == pc = "done" /\ exit = 1 /\ err # Nil /\ err[1] = msg
CallsOf(op) == {i \in DOMAIN calls : calls[i].op = op}
ReachedWrite == pc = "write" \/ CallsOf("WriteToFile") # {}
Assembled == newConfig # NoConfig
PrimaryOK == primary.called /\ ~primary.failed /\ primary.token # <<>>
PrimaryKO == primary.called /\ (primary.failed \/ primary.token = <<>>)
NothingWritten ==
  /\ file = env.file0
  /\ CallsOf("MkdirAll") = {}
  /\ CallsOf("WriteToFile") = {}
  /\ CallsOf("Chmod") = {}
NoTokenAcquisition ==
  /\ ~primary.called
  /\ ~fallback.called
  /\ CallsOf("kubectl create token") = {}
  /\ CallsOf("getTokenFromSecret") = {}
  /\ CallsOf("Secrets.Get") = {}
ExpectedContextName ==
  IF flags.ContextName = "" THEN flags.ServiceAccountName \o "-context"
  ELSE flags.ContextName

(* C1: once the write step is reached, the output credential set has      *)
(* exactly one cluster, exactly one user keyed by the ServiceAccount      *)
(* name, exactly one context keyed by the resolved context name (the      *)
(* -context flag, or <sa-name>-context when the flag is empty), and its   *)
(* current-context is that name; what is written to the file is that set. *)
C1_OneClusterUserContext ==
  ReachedWrite =>
    /\ Cardinality(DOMAIN newConfig.Clusters) = 1
    /\ DOMAIN newConfig.AuthInfos = {flags.ServiceAccountName}
    /\ DOMAIN newConfig.Contexts = {ExpectedContextName}
    /\ newConfig.CurrentContext = ExpectedContextName
    /\ newConfig.Contexts[ExpectedContextName].AuthInfo
         = flags.ServiceAccountName
    /\ newConfig.Contexts[ExpectedContextName].Cluster
         \in DOMAIN newConfig.Clusters
    /\ file.content # <<>> => file.content = <<newConfig>>

C1_Witness ==
  /\ Succeeded
  /\ flags.ContextName # ""
  /\ flags.ClusterName = ""
  /\ file.content = <<newConfig>>

(* C2: kubectl create token is attempted at most once and before any      *)
(* step of the fallback; when it succeeds (no error, non-empty trimmed    *)
(* output) getTokenFromSecret is never invoked, the ServiceAccount is not *)
(* read again, no Secret is read, and the token used is the primary one.  *)
C2_PrimaryFirstNoFallbackOnSuccess ==
  /\ Cardinality(CallsOf("kubectl create token")) <= 1
  /\ \A i \in CallsOf("getTokenFromSecret") \cup CallsOf("Secrets.Get") :
       \E j \in CallsOf("kubectl create token") : j < i
  /\ PrimaryOK =>
       /\ ~fallback.called
       /\ CallsOf("getTokenFromSecret") = {}
       /\ CallsOf("Secrets.Get") = {}
       /\ Cardinality(CallsOf("ServiceAccounts.Get")) = 1
       /\ token = primary.token
       /\ Assembled =>
            newConfig.AuthInfos[flags.ServiceAccountName].Token = primary.token

C2_Witness ==
  /\ Succeeded
  /\ PrimaryOK
  /\ CallsOf("getTokenFromSecret") = {}
  /\ file.content = <<newConfig>>
  /\ newConfig.AuthInfos[flags.ServiceAccountName].Token = primary.token

(* C3: when the primary mechanism fails (command error, or output empty   *)
(* after trimming) the run goes on to the fallback: getTokenFromSecret is *)
(* invoked exactly once before the run can end, and the run ends with the *)
(* token-acquisition error only if the fallback returned an error.        *)
C3_FallbackAttemptedOnPrimaryFailure ==
  /\ PrimaryKO =>
       /\ Cardinality(CallsOf("getTokenFromSecret")) <= 1
       /\ pc # "fallback" => Cardinality(CallsOf("getTokenFromSecret")) = 1
       /\ Done => fallback.called
  /\ FailedWith(GetTokenError) =>
       /\ fallback.called
       /\ fallback.err # Nil
       /\ err = <<GetTokenError>> \o fallback.err
  /\ (fallback.called /\ fallback.err = Nil) => ~FailedWith(GetTokenError)

C3_Witness ==
  /\ Succeeded
  /\ primary.called /\ ~primary.failed /\ primary.token = <<>>
  /\ fallback.called /\ fallback.err = Nil
  /\ token = fallback.token

(* C4: when the primary mechanism failed and the ServiceAccount read by   *)
(* the fallback lists zero secrets, the run ends with NoAssociatedSecret  *)
(* and the output file is neither created nor written: the directory,     *)
(* write and permission steps are never reached.                          *)
C4_NoSecretsNoOutput ==
  (PrimaryKO /\ sa.status = "ok" /\ Len(sa.Secrets) = 0) =>
    /\ Done
    /\ exit = 1
    /\ err = <<GetTokenError, NoAssociatedSecret>>
    /\ CallsOf("Secrets.Get") = {}
    /\ ~Assembled
    /\ NothingWritten

C4_Witness ==
  /\ Done
  /\ primary.failed
  /\ sa.status = "ok" /\ sa.Secrets = <<>>
  /\ ~env.file0.exists /\ ~file.exists
  /\ err = <<GetTokenError, NoAssociatedSecret>>

OutCluster == newConfig.Clusters[config.ClusterName]
Warned ==
  \E i \in DOMAIN stdout : stdout[i] \in {WarningNoCA, WarningReadCA}
SourceCA == currentCluster.CertificateAuthorityData

(* C5: the CA of the output cluster entry follows the priority order      *)
(* inline bytes, then the content of a readable CA file, else             *)
(* skip-TLS-verify with a warning; skip-TLS-verify is never enabled       *)
(* without a warning nor together with copied CA bytes.                   *)
C5_CAResolution ==
  Assembled =>
    /\ Len(SourceCA) > 0 =>
         /\ OutCluster.CertificateAuthorityData = SourceCA
         /\ ~OutCluster.InsecureSkipTLSVerify
         /\ ~caRead.called
    /\ (Len(SourceCA) = 0 /\ currentCluster.CertificateAuthority # ""
          /\ caRead.ok) =>
         /\ OutCluster.CertificateAuthorityData = caRead.content
         /\ ~OutCluster.InsecureSkipTLSVerify
    /\ (Len(SourceCA) = 0
          /\ (currentCluster.CertificateAuthority = "" \/ ~caRead.ok)) =>
         /\ OutCluster.InsecureSkipTLSVerify
         /\ Warned
    /\ OutCluster.InsecureSkipTLSVerify =>
         /\ Warned
         /\ OutCluster.CertificateAuthorityData = <<>>
    /\ Warned => OutCluster.InsecureSkipTLSVerify

C5_Witness ==
  /\ Succeeded
  /\ Len(SourceCA) = 0
  /\ caRead.called /\ ~caRead.ok
  /\ file.content = <<newConfig>>
  /\ OutCluster.InsecureSkipTLSVerify

(* C6: when the run ends successfully the output file exists and its      *)
(* permission bits are exactly 0600, whatever the umask and whatever the  *)
(* mode of a file that was already at the output path.                    *)
C6_OwnerOnlyAfterSuccess ==
  Succeeded => file.exists /\ file.mode = 384 /\ file.content = <<newConfig>>

C6_Witness ==
  /\ Succeeded
  /\ env.file0.exists /\ env.file0.mode # 384
  /\ env.umask = 128
  /\ file.mode = 384

(* C7: when the verification read of the ServiceAccount fails the run     *)
(* ends with ServiceAccountNotFound; token acquisition never starts       *)
(* (neither kubectl nor the fallback reads) and nothing is written.       *)
C7_VerificationIsHardStop ==
  /\ verified = "failed" =>
       /\ FailedWith(ServiceAccountNotFound)
       /\ NoTokenAcquisition
       /\ Cardinality(CallsOf("ServiceAccounts.Get")) = 1
       /\ ~Assembled
       /\ NothingWritten
  /\ (primary.called \/ fallback.called) => verified = "ok"

C7_Witness ==
  /\ verified = "failed"
  /\ FailedWith(ServiceAccountNotFound)
  /\ clientset = "kubeconfig"

SourceLoaded == currentConfig # NoConfig
CurrentContextUnresolved ==
  currentConfig.CurrentContext \notin DOMAIN currentConfig.Contexts
ClusterMissing ==
  /\ ~CurrentContextUnresolved
  /\ currentConfig.Contexts[currentConfig.CurrentContext].Cluster
       \notin DOMAIN currentConfig.Clusters

(* C8: when the source file loads, the run ends with NoCurrentContext if  *)
(* the current context is unset or names no context entry, and with       *)
(* NoClusterForContext if it names a cluster that has no entry; in both   *)
(* cases no ServiceAccount read, token acquisition or write happens.      *)
C8_ContextErrors ==
  (Done /\ SourceLoaded) =>
    /\ CurrentContextUnresolved => err = <<NoCurrentContext>>
    /\ ClusterMissing => err = <<NoClusterForContext>>
    /\ (CurrentContextUnresolved \/ ClusterMissing) =>
         /\ CallsOf("ServiceAccounts.Get") = {}
         /\ NoTokenAcquisition
         /\ NothingWritten

(* C9: the permission step comes only after a successful write; when it   *)
(* fails the run ends with PermissionError and the written file, with the *)
(* token in it, is left in place.                                         *)
C9_ChmodAfterWriteFileKept ==
  /\ (pc = "chmod" \/ CallsOf("Chmod") # {}) =>
       /\ file.exists
       /\ file.content = <<newConfig>>
       /\ \A i \in CallsOf("Chmod") : \E j \in CallsOf("WriteToFile") : j < i
  /\ FailedWith(PermissionError) =>
       /\ err = <<PermissionError, Cause>>
       /\ file.exists
       /\ file.content = <<newConfig>>
       /\ file.content[1].AuthInfos[flags.ServiceAccountName].Token = token
  /\ FailedWith(WriteError) => CallsOf("Chmod") = {}

C9_Witness ==
  /\ FailedWith(PermissionError)
  /\ ~env.file0.exists
  /\ file.exists
  /\ file.content = <<newConfig>>

(* C10: the fallback reads one secret, the first listed on the            *)
(* ServiceAccount; it fails with SecretReadError when that read fails,    *)
(* with TokenFieldMissing when the secret has no token field, and         *)
(* otherwise the token of the single user entry of the output is that     *)
(* field's value unchanged.                                               *)
C10_FirstSecretTokenUnchanged ==
  /\ Cardinality(CallsOf("Secrets.Get")) <= 1
  /\ \A i \in CallsOf("Secrets.Get") :
       /\ PrimaryKO
       /\ sa.status = "ok"
       /\ calls[i].arg = sa.Secrets[1]
  /\ secret.status = "failed" =>
       /\ Done /\ exit = 1
       /\ err = <<GetTokenError, SecretReadError, Cause>>
       /\ NothingWritten
  /\ (secret.status = "ok" /\ "token" \notin DOMAIN secret.Data) =>
       /\ Done /\ exit = 1
       /\ err = <<GetTokenError, TokenFieldMissing>>
       /\ NothingWritten
  /\ (secret.status = "ok" /\ "token" \in DOMAIN secret.Data) =>
       /\ secret.Name = sa.Secrets[1]
       /\ token = secret.Data["token"]
       /\ ~FailedWith(GetTokenError)
       /\ Assembled =>
            /\ DOMAIN newConfig.AuthInfos = {flags.ServiceAccountName}
            /\ newConfig.AuthInfos[flags.ServiceAccountName].Token
                 = secret.Data["token"]
       /\ file.content # <<>> =>
            file.content[1].AuthInfos[flags.ServiceAccountName].Token
              = secret.Data["token"]

C10_Witness ==
  /\ Succeeded
  /\ PrimaryKO
  /\ Len(sa.Secrets) = 2 /\ sa.Secrets[1] # sa.Secrets[2]
  /\ secret.status = "ok"
  /\ secret.Data = ("token" :> <<" ", "a">>)
  /\ file.content[1].AuthInfos[flags.ServiceAccountName].Token = <<" ", "a">>
====
